---- MODULE Spec2Model ----
(***************************************************************************)
(* A model of the Python tooling of the repository:                        *)
(*   debug_real_bundle.py            the UnityFS header / BlocksInfo walk  *)
(*   scripts/dump_unitypy_object_tree.py   dump_object_trees               *)
(*   scripts/compare_object_trees.py       _normalize_bytes, _diff, main   *)
(*   scripts/generate_reference_json.py    process_all_fixtures            *)
(*   scripts/generate_real_bundle_references.py   extract_bundle_snapshot  *)
(*   tests/UnityAssetParser.Tests/tools/                                   *)
(*       enrich_unityasset_snapshots_with_unitypy.py   main                *)
(* Each script is a state machine of its own (SpecBundle, SpecDump,        *)
(* SpecCompare, SpecFixtures, SpecSnapshot, SpecEnrich); the variables of  *)
(* the other scripts stay at their idle values.                            *)
(***************************************************************************)
EXTENDS Integers, Sequences, FiniteSets, TLC

VARIABLES
    \* ---- debug_real_bundle.py ----
    input,              \* ghost: how the input file was built (never read by an action)
    file,               \* the bytes of the file at bundle_path
    pos,                \* f.tell()
    pc,                 \* position of the script
    err,                \* the exception raised ("none" while none)
    reads,              \* ghost: the (field, start, end) spans f.read() returned, in order
    sig, sig_str, version, player_ver, engine_ver,
    bundle_size, compressed_size, uncompressed_size, flags,
    chars, eofReads,    \* read_cstring: the bytes joined so far, reads that hit end of file
    pos_before, compressed_data, decompressed,
    offset, hash_val, block_count, node_count,
    loop_i,             \* i: the index of the block / node loop
    blocks, nodes,      \* the block / node lines printed, in order
    path_bytes, start_offset, node_fields,
    consumed,           \* "Total bytes consumed" (-1 until printed)
    \* ---- scripts/dump_unitypy_object_tree.py ----
    env_objects,        \* env.objects: what UnityPy.load found
    dump_i,             \* the number of objects the for loop has taken
    objects,            \* the list the loop appends to
    dump_result,        \* what dump_object_trees returned (NoResult until then)
    dump_pc,
    \* ---- scripts/compare_object_trees.py ----
    json_u, json_c,     \* what json.load returns for the two files
    max_diffs,          \* args.max
    u_objs, c_objs,     \* pathId -> object, as dicts
    todo,               \* the path ids the for loop of main has still to take
    diffs,              \* the list _diff appends to (its parameter out)
    stack,              \* the calls of _diff in progress, innermost last
    inspections,        \* ghost: the calls of _diff that got past line 25-26
    report,             \* what main prints at the end ("" until then)
    cmp_pc,
    \* ---- scripts/generate_reference_json.py ----
    fixtures_dir,       \* the directory: whether it exists and what it holds
    bundle_files,       \* list(fixtures_dir.glob("*.hhh")), in the order glob gave
    fx_todo,            \* what the for loop over sorted(bundle_files) has still to take
    bundle_path,        \* the parameter of the call of process_bundle in progress
    fx_calls,           \* ghost: the paths process_bundle was called with, in order
    fx_written,         \* the output files written, in order
    fx_pc,
    \* ---- scripts/generate_real_bundle_references.py ----
    snap_env,           \* env: what UnityPy.load returned
    snapshot,           \* the dict extract_bundle_snapshot builds and returns
    snap_i,             \* the number of items the for loop in progress has taken
    snap_pc,
    \* ---- tools/enrich_unityasset_snapshots_with_unitypy.py ----
    enr_files,          \* the files under fixtures_root: name -> content
    enr_start,          \* ghost: enr_files as main found them
    index_data,         \* json.load of index.json
    enr_i,              \* the number of entries of selected the for loop has taken
    enr_snapshot,       \* snapshot: json.load of the snapshot file of the entry
    unitypy_meshes,     \* path id -> what _mesh_diag gave
    enr_j,              \* the number of meshes the inner loop has taken
    enr_err,            \* the exception that ended main ("none" while none)
    enr_written,        \* ghost: the names of the files main has opened for writing
    enr_pc

hdrVars == <<sig, sig_str, version, player_ver, engine_ver, bundle_size, compressed_size,
             uncompressed_size, flags>>
strVars == <<chars, eofReads>>
locVars == <<pos_before, compressed_data, decompressed>>
dirVars == <<offset, hash_val, block_count, node_count, loop_i, blocks, nodes, path_bytes,
             start_offset, node_fields, consumed>>
dumpVars == <<env_objects, dump_i, objects, dump_result, dump_pc>>
cmpVars == <<json_u, json_c, max_diffs, u_objs, c_objs, todo, diffs, stack,
             inspections, report, cmp_pc>>
bundleVars == <<input, file, pos, pc, err, reads, hdrVars, strVars, locVars, dirVars>>
fxVars == <<fixtures_dir, bundle_files, fx_todo, bundle_path, fx_calls, fx_written, fx_pc>>
snapVars == <<snap_env, snapshot, snap_i, snap_pc>>
enrVars == <<enr_files, enr_start, index_data, enr_i, enr_snapshot, unitypy_meshes, enr_j,
            enr_err, enr_written, enr_pc>>
toolVars == <<fxVars, snapVars, enrVars>>

----------------------------------------------------------------------------
(* Bounds of the model.                                                    *)
MaxBlocks == 2
MaxNodes == 2
MaxPathLen == 2
MaxEofReads == 3
MaxObjects == 3
MaxDiffs == 3
MaxFixtures == 3
MaxSelected == 2

(* Program constants.                                                      *)
BlocksInfoAtEnd == 128

----------------------------------------------------------------------------
(* Bytes and integers.  TLC's integers are 32 bit wide, so an unpacked     *)
(* value of Large or more is kept as Large plus its low 30 bits: the       *)
(* script uses such a value only as a size or count that exceeds every     *)
(* modelled file and buffer, or through its low bits (flags & 0x80).       *)
Large == 2^30

Min(a, b) == IF a < b THEN a ELSE b

RECURSIVE Concat(_)
Concat(ss) == IF ss = <<>> THEN <<>> ELSE Head(ss) \o Concat(Tail(ss))

\* python: buf[a:b] for 0 <= a, clipped at the end of buf
Slice(buf, a, b) == SubSeq(buf, a + 1, Min(b, Len(buf)))

\* one step of the big-endian accumulation acc * 256 + b
Shift8(acc, b) ==
    LET low == (acc % (2^22)) * 256 + b
    IN  IF acc >= 2^22 THEN Large + low ELSE low

RECURSIVE FromBEAcc(_, _)
FromBEAcc(bytes, acc) ==
    IF bytes = <<>> THEN acc ELSE FromBEAcc(Tail(bytes), Shift8(acc, Head(bytes)))

\* struct.unpack('>I' | '>Q' | '>H', bytes)[0] for bytes of the right length
FromBE(bytes) == FromBEAcc(bytes, 0)

\* struct.unpack(fmt, bytes): struct.error unless len(bytes) is the format's size
Unpack(width, bytes) ==
    IF Len(bytes) = width THEN [ok |-> TRUE, v |-> FromBE(bytes)]
    ELSE [ok |-> FALSE, v |-> 0]

\* python: v & 0x80
BitAnd128(v) == ((v \div 128) % 2) * 128

\* bytes.decode('ascii'): the code points, or UnicodeDecodeError
DecodeAscii(bytes) ==
    IF \A i \in 1..Len(bytes) : bytes[i] < 128
    THEN [ok |-> TRUE, s |-> bytes]
    ELSE [ok |-> FALSE, s |-> <<>>]

\* str.rstrip('\x00')
RECURSIVE RStripNul(_)
RStripNul(s) ==
    IF s # <<>> /\ s[Len(s)] = 0 THEN RStripNul(SubSeq(s, 1, Len(s) - 1)) ELSE s

\* bytes.decode('utf-8'): the code points, or UnicodeDecodeError.  One, two and
\* three byte forms are decoded; a longer lead byte or a stray continuation fails.
IsCont(b) == b >= 128 /\ b < 192

RECURSIVE DecodeUtf8(_)
DecodeUtf8(bytes) ==
    IF bytes = <<>> THEN [ok |-> TRUE, s |-> <<>>]
    ELSE LET b == Head(bytes)
             n == IF b < 128 THEN 1
                  ELSE IF b >= 194 /\ b < 224 THEN 2
                  ELSE IF b >= 224 /\ b < 240 THEN 3
                  ELSE 0
             wellFormed ==
                 /\ n > 0
                 /\ Len(bytes) >= n
                 /\ \A i \in 2..n : IsCont(bytes[i])
                 /\ (b = 224 => bytes[2] >= 160)
                 /\ (b = 237 => bytes[2] < 160)
             cp == IF n = 1 THEN b
                   ELSE IF n = 2 THEN (b - 192) * 64 + (bytes[2] - 128)
                   ELSE (b - 224) * 4096 + (bytes[2] - 128) * 64 + (bytes[3] - 128)
         IN  IF ~wellFormed THEN [ok |-> FALSE, s |-> <<>>]
             ELSE LET rest == DecodeUtf8(SubSeq(bytes, n + 1, Len(bytes)))
                  IN  IF rest.ok THEN [ok |-> TRUE, s |-> <<cp>> \o rest.s]
                      ELSE rest

----------------------------------------------------------------------------
(* lz4.block.decompress(source, uncompressed_size=cap): the LZ4 block      *)
(* format as the reference decoder (LZ4_decompress_safe) reads it.  A      *)
(* sequence is a token, the literal length's extension bytes, the          *)
(* literals, a little-endian match offset and the match length's           *)
(* extension bytes; the last sequence ends after its literals.  The        *)
(* result may be shorter than cap; corrupt input or too small a cap is     *)
(* LZ4BlockError.                                                          *)

\* a length's extension: add bytes until one is below 255
RECURSIVE LZ4Ext(_, _, _)
LZ4Ext(src, i, acc) ==
    IF i > Len(src) THEN [ok |-> FALSE, len |-> 0, next |-> i]
    ELSE IF src[i] = 255 THEN LZ4Ext(src, i + 1, acc + 255)
    ELSE [ok |-> TRUE, len |-> acc + src[i], next |-> i + 1]

LZ4Len(src, i, nibble) ==
    IF nibble = 15 THEN LZ4Ext(src, i, 15)
    ELSE [ok |-> TRUE, len |-> nibble, next |-> i]

\* the match copy: byte by byte, so that it may overlap what it writes
RECURSIVE LZ4Copy(_, _, _)
LZ4Copy(out, off, n) ==
    IF n = 0 THEN out ELSE LZ4Copy(Append(out, out[Len(out) + 1 - off]), off, n - 1)

LZ4Fail == [ok |-> FALSE, out |-> <<>>]

RECURSIVE LZ4Seqs(_, _, _, _)
LZ4Seqs(src, i, out, cap) ==
    IF i > Len(src) THEN LZ4Fail
    ELSE
    LET token == src[i]
        lit   == LZ4Len(src, i + 1, token \div 16)
        litEnd == lit.next + lit.len            \* index after the literals
        out1  == out \o SubSeq(src, lit.next, litEnd - 1)
        \* literals that reach the tail of the input or of the output
        \* buffer must be the last sequence
        tail  == Len(out) + lit.len > cap - 12 \/ litEnd - 1 > Len(src) - 8
    IN  IF ~lit.ok \/ litEnd - 1 > Len(src) THEN LZ4Fail
        ELSE IF tail
        THEN IF litEnd = Len(src) + 1 /\ Len(out1) <= cap
             THEN [ok |-> TRUE, out |-> out1]
             ELSE LZ4Fail
        ELSE
        LET off == src[litEnd] + 256 * src[litEnd + 1]
            mat == LZ4Len(src, litEnd + 2, token % 16)
            mlen == mat.len + 4
        IN  IF ~mat.ok \/ off = 0 \/ off > Len(out1) THEN LZ4Fail
            ELSE IF Len(out1) + mlen > cap - 5 THEN LZ4Fail
            ELSE LZ4Seqs(src, mat.next, LZ4Copy(out1, off, mlen), cap)

LZ4Decompress(src, cap) ==
    IF src = <<>> THEN LZ4Fail
    ELSE IF cap = 0
    THEN IF src = <<0>> THEN [ok |-> TRUE, out |-> <<>>] ELSE LZ4Fail
    ELSE LZ4Seqs(src, 1, <<>>, cap)

----------------------------------------------------------------------------
(* Construction of the input files: the wire layout of a bundle and of     *)
(* its directory.                                                          *)

\* n < Large as w big-endian bytes
BE(n, w) == [i \in 1..w |-> IF w - i >= 4 THEN 0 ELSE (n \div (256^(w - i))) % 256]

CStr(s) == s \o <<0>>

RECURSIVE LZ4ExtBytes(_)
LZ4ExtBytes(n) == IF n >= 255 THEN <<255>> \o LZ4ExtBytes(n - 255) ELSE <<n>>

\* an LZ4 block of literals only
LZ4Literal(data) ==
    IF Len(data) < 15 THEN <<Len(data) * 16>> \o data
    ELSE <<240>> \o LZ4ExtBytes(Len(data) - 15) \o data

\* an LZ4 block that codes 16 equal leading bytes as one literal and a match
LZ4Run(data) ==
    IF Len(data) >= 29 /\ \A i \in 2..16 : data[i] = data[1]
    THEN <<27, data[1], 1, 0>> \o LZ4Literal(SubSeq(data, 17, Len(data)))
    ELSE LZ4Literal(data)

HashBytes == [i \in 1..16 |-> 7]

BlockOf(i) == [uncomp |-> 65536 * i + 3, comp |-> 258 * i, flags |-> 64 + i]
NodeOf(j, path) == [offset |-> 16777216 * j + 5, size |-> 513 + j, flags |-> 4,
                    path |-> path]

BlockRec(b) == BE(b.uncomp, 4) \o BE(b.comp, 4) \o BE(b.flags, 2)
NodeRec(n) == BE(n.offset, 8) \o BE(n.size, 8) \o BE(n.flags, 4) \o CStr(n.path)

\* the path of node j with len bytes: ASCII letters and a slash
PathOf(j, len) == [k \in 1..len |-> IF k = 2 THEN 47 ELSE 96 + j + k]

RECURSIVE SeqsOver(_, _)
SeqsOver(S, n) ==
    IF n = 0 THEN {<<>>}
    ELSE SeqsOver(S, n - 1) \cup
         {Append(s, x) : s \in {t \in SeqsOver(S, n - 1) : Len(t) = n - 1}, x \in S}

Defects == {"none", "noTerminator", "truncated", "nodeCountTooBig",
            "blockCountTooBig", "badUtf8", "trailing"}

\* the decompressed directory with nb blocks and nodes of the given path
\* lengths, spoilt as the defect says
DirOf(nb, lens, defect) ==
    LET bs == [i \in 1..nb |-> BlockOf(i)]
        ns == [j \in 1..Len(lens) |->
                 NodeOf(j, IF defect = "badUtf8" /\ j = Len(lens)
                           THEN Append(PathOf(j, lens[j]), 255)
                           ELSE PathOf(j, lens[j]))]
        bcount == IF defect = "blockCountTooBig" THEN nb + 1 ELSE nb
        ncount == IF defect = "nodeCountTooBig" THEN Len(lens) + 1 ELSE Len(lens)
        body == HashBytes \o BE(bcount, 4) \o Concat([i \in 1..nb |-> BlockRec(bs[i])])
                \o BE(ncount, 4) \o Concat([j \in 1..Len(lens) |-> NodeRec(ns[j])])
        bytes == CASE defect = "noTerminator" -> SubSeq(body, 1, Len(body) - 1)
                   [] defect = "truncated" -> SubSeq(body, 1, Len(body) - 3)
                   [] defect = "trailing" -> body \o <<9, 9>>
                   [] OTHER -> body
    IN  [blocks |-> bs, nodes |-> ns, defect |-> defect, bytes |-> bytes]

Dirs ==
    {DirOf(nb, lens, d) : nb \in 0..MaxBlocks,
                          lens \in SeqsOver(0..MaxPathLen, MaxNodes), d \in Defects}

DefaultDir == DirOf(1, <<1>>, "none")

\* the directory bytes as the bundle stores them under a codec tag
Compress(tag, bytes) ==
    CASE tag = 0 -> bytes
      [] tag = 1 -> <<93, 0, 0, 16, 0>> \o bytes
      [] tag = 3 -> LZ4Run(bytes)
      [] OTHER -> LZ4Literal(bytes)

SigUnityFS == <<85, 110, 105, 116, 121, 70, 83, 0>>
SigUnityRaw == <<85, 110, 105, 116, 121, 82, 97, 119>>
SigNotAscii == <<85, 110, 105, 116, 121, 70, 83, 200>>
DataBytes == <<222, 173>>

\* a bundle file.  layout "format": the version is a field of its own after
\* the signature; layout "packed": the version strings follow the signature
\* at once.  keep: the number of bytes of the file that are there (-1: all).
MakeInput(sigBytes, layout, player, engine, streamed, tag, dir, csizeExtra,
          usizeExtra, keep) ==
    LET comp == Compress(tag, dir.bytes)
        flagsVal == tag + 64 + (IF streamed THEN BlocksInfoAtEnd ELSE 0)
        hdrLen == Len(sigBytes) + (IF layout = "format" THEN 4 ELSE 0)
                  + Len(player) + 1 + Len(engine) + 1 + 20
        total == hdrLen + Len(comp) + Len(DataBytes)
        hdr == sigBytes \o (IF layout = "format" THEN BE(6, 4) ELSE <<>>)
               \o CStr(player) \o CStr(engine) \o BE(total, 8)
               \o BE(Len(comp) + csizeExtra, 4)
               \o BE(Len(dir.bytes) + usizeExtra, 4) \o BE(flagsVal, 4)
        full == IF streamed THEN hdr \o DataBytes \o comp
                ELSE hdr \o comp \o DataBytes
    IN  [sig |-> sigBytes, layout |-> layout, player |-> player, engine |-> engine,
         streamed |-> streamed, tag |-> tag, dir |-> dir, comp |-> comp,
         csize |-> Len(comp) + csizeExtra, usize |-> Len(dir.bytes) + usizeExtra,
         flags |-> flagsVal, total |-> total, hdrLen |-> hdrLen,
         whole |-> keep = -1 \/ keep >= total,
         bytes |-> IF keep = -1 THEN full ELSE SubSeq(full, 1, Min(keep, total))]

Player5 == <<53, 46, 120>>
Engine20 == <<50, 48>>
\* "5.x.x" and "2022.3.9f1", as a Unity build writes them
Player5xx == <<53, 46, 120, 46, 120>>
Engine2022 == <<50, 48, 50, 50, 46, 51, 46, 57, 102, 49>>

\* header variations over the default directory
HeaderInputs ==
    {MakeInput(s, l, Player5, Engine20, st, t, DefaultDir, ce, ue, k) :
        s \in {SigUnityFS, SigUnityRaw, SigNotAscii}, l \in {"format", "packed"},
        st \in BOOLEAN, t \in {0, 1, 2, 3, 5}, ce \in {0}, ue \in {0},
        k \in {-1}}
    \cup
    {MakeInput(SigUnityFS, l, Player5, Engine20, st, 2, DefaultDir, ce, ue, k) :
        l \in {"format", "packed"}, st \in BOOLEAN, ce \in {0, 200},
        ue \in {-1, 0, 1}, k \in {-1, 6, 10, 15, 31, 60}}
    \cup
    {MakeInput(SigUnityFS, l, Player5xx, Engine2022, st, 3, DefaultDir, 0, 0, -1) :
        l \in {"format", "packed"}, st \in BOOLEAN}

\* directory variations under a well-formed header
DirInputs ==
    {MakeInput(SigUnityFS, "packed", Player5, Engine20, st, t, d, 0, 0, -1) :
        st \in BOOLEAN, t \in {2, 3}, d \in Dirs}

BundleInputs == HeaderInputs \cup DirInputs

----------------------------------------------------------------------------
(* debug_real_bundle.py                                                    *)

\* the other scripts are not running
DumpIdle ==
    /\ env_objects = <<>> /\ dump_i = 0 /\ objects = <<>>
    /\ dump_result = [returned |-> FALSE] /\ dump_pc = "idle"

CompareIdle ==
    /\ json_u = <<>> /\ json_c = <<>> /\ max_diffs = 0
    /\ u_objs = <<>> /\ c_objs = <<>> /\ todo = <<>> /\ diffs = <<>>
    /\ stack = <<>> /\ inspections = 0 /\ report = "" /\ cmp_pc = "idle"

FixturesIdle ==
    /\ fixtures_dir = <<>> /\ bundle_files = <<>> /\ fx_todo = <<>>
    /\ bundle_path = 0 /\ fx_calls = <<>> /\ fx_written = <<>> /\ fx_pc = "idle"

SnapshotIdle ==
    /\ snap_env = <<>> /\ snapshot = <<>> /\ snap_i = 0 /\ snap_pc = "idle"

EnrichIdle ==
    /\ enr_files = <<>> /\ enr_start = <<>> /\ index_data = <<>> /\ enr_i = 0
    /\ enr_snapshot = <<>> /\ unitypy_meshes = <<>> /\ enr_j = 0
    /\ enr_err = "none" /\ enr_written = <<>> /\ enr_pc = "idle"

ToolsIdle == FixturesIdle /\ SnapshotIdle /\ EnrichIdle

InitBundle ==
    /\ input \in BundleInputs
    /\ file = input.bytes
    /\ pos = 0
    /\ pc = "sig"
    /\ err = "none"
    /\ reads = <<>>
    /\ sig = <<>> /\ sig_str = <<>> /\ version = 0
    /\ player_ver = <<>> /\ engine_ver = <<>>
    /\ bundle_size = 0 /\ compressed_size = 0 /\ uncompressed_size = 0 /\ flags = 0
    /\ chars = <<>> /\ eofReads = 0
    /\ pos_before = 0 /\ compressed_data = <<>> /\ decompressed = <<>>
    /\ offset = 0 /\ hash_val = <<>> /\ block_count = 0 /\ node_count = 0 /\ loop_i = 0
    /\ blocks = <<>> /\ nodes = <<>>
    /\ path_bytes = <<>> /\ start_offset = 0 /\ node_fields = <<>>
    /\ consumed = -1
    /\ DumpIdle
    /\ CompareIdle
    /\ ToolsIdle

\* f.read(n) at position p: the bytes that are there
ReadAt(p, n) == Slice(file, p, p + Min(n, Len(file)))

Span(name, p, bytes) == [field |-> name, start |-> p, end |-> p + Len(bytes)]

\* an exception outside the try block ends the script with a traceback
Crash(e) == pc' = "crashed" /\ err' = e

\* line 10-12: sig = f.read(8); sig_str = sig[:8].decode('ascii').rstrip('\x00')
ReadSignature ==
    /\ pc = "sig"
    /\ LET b == ReadAt(pos, 8)
           d == DecodeAscii(Slice(b, 0, 8))
       IN  /\ sig' = b
           /\ pos' = pos + Len(b)
           /\ reads' = Append(reads, Span("signature", pos, b))
           /\ IF d.ok
              THEN sig_str' = RStripNul(d.s) /\ pc' = "version" /\ err' = err
              ELSE sig_str' = sig_str /\ Crash("UnicodeDecodeError")
    /\ UNCHANGED <<dumpVars, cmpVars, toolVars>>
    /\ UNCHANGED <<input, file, version, player_ver, engine_ver, bundle_size,
                   compressed_size, uncompressed_size, flags, strVars, locVars, dirVars>>

\* where the version is read from: f.seek(4)
VersionOffsetAfterSignature(p) == p
VersionOffset(p) == 4

\* line 15, 27-29: f.seek(4); version = struct.unpack('>I', f.read(4))[0]
ReadVersion ==
    /\ pc = "version"
    /\ LET at == VersionOffset(pos)
           b == ReadAt(at, 4)
           u == Unpack(4, b)
       IN  /\ pos' = at + Len(b)
           /\ reads' = Append(reads, Span("formatVersion", at, b))
           /\ IF u.ok
              THEN version' = u.v /\ pc' = "player" /\ err' = err
              ELSE version' = 0 /\ Crash("struct.error")
    /\ UNCHANGED <<dumpVars, cmpVars, toolVars>>
    /\ UNCHANGED <<input, file, sig, sig_str, player_ver, engine_ver, bundle_size,
                   compressed_size, uncompressed_size, flags, strVars, locVars, dirVars>>

\* line 18-25, 30-31: one iteration of read_cstring's loop, and its return
\* when the byte read is the terminator.  At end of file f.read(1) is b'',
\* which is not b'\x00': it is appended and the loop goes on.
ReadCStringStep ==
    /\ pc \in {"player", "engine"}
    /\ LET c == ReadAt(pos, 1)
           d == DecodeAscii(chars)
       IN  /\ pos' = pos + Len(c)
           /\ IF c = <<0>>
              THEN /\ chars' = <<>>
                   /\ eofReads' = 0
                   /\ reads' = Append(reads,
                         [field |-> IF pc = "player" THEN "playerVersion"
                                    ELSE "engineVersion",
                          start |-> pos - Len(chars), end |-> pos + 1])
                   /\ IF d.ok
                      THEN /\ player_ver' = IF pc = "player" THEN d.s ELSE player_ver
                           /\ engine_ver' = IF pc = "engine" THEN d.s ELSE engine_ver
                           /\ pc' = IF pc = "player" THEN "engine" ELSE "bundle_size"
                           /\ err' = err
                      ELSE /\ UNCHANGED <<player_ver, engine_ver>>
                           /\ Crash("UnicodeDecodeError")
              ELSE /\ chars' = chars \o c
                   /\ eofReads' = IF c = <<>> THEN Min(eofReads + 1, MaxEofReads)
                                  ELSE eofReads
                   /\ UNCHANGED <<reads, player_ver, engine_ver, pc, err>>
    /\ UNCHANGED <<dumpVars, cmpVars, toolVars>>
    /\ UNCHANGED <<input, file, sig, sig_str, version, bundle_size, compressed_size,
                   uncompressed_size, flags, locVars, dirVars>>

\* struct.unpack(fmt, f.read(width))[0] of line 33-36
ReadField(name, width) ==
    LET b == ReadAt(pos, width)
        u == Unpack(width, b)
    IN  [ok |-> u.ok, v |-> u.v, pos |-> pos + Len(b), span |-> Span(name, pos, b)]

\* line 33
ReadBundleSize ==
    /\ pc = "bundle_size"
    /\ LET r == ReadField("bundleSize", 8)
       IN  /\ pos' = r.pos /\ reads' = Append(reads, r.span)
           /\ IF r.ok THEN bundle_size' = r.v /\ pc' = "compressed_size" /\ err' = err
              ELSE bundle_size' = bundle_size /\ Crash("struct.error")
    /\ UNCHANGED <<dumpVars, cmpVars, toolVars>>
    /\ UNCHANGED <<input, file, sig, sig_str, version, player_ver, engine_ver,
                   compressed_size, uncompressed_size, flags, strVars, locVars, dirVars>>

\* line 34
ReadCompressedSize ==
    /\ pc = "compressed_size"
    /\ LET r == ReadField("compressedBlocksInfoSize", 4)
       IN  /\ pos' = r.pos /\ reads' = Append(reads, r.span)
           /\ IF r.ok
              THEN compressed_size' = r.v /\ pc' = "uncompressed_size" /\ err' = err
              ELSE compressed_size' = compressed_size /\ Crash("struct.error")
    /\ UNCHANGED <<dumpVars, cmpVars, toolVars>>
    /\ UNCHANGED <<input, file, sig, sig_str, version, player_ver, engine_ver,
                   bundle_size, uncompressed_size, flags, strVars, locVars, dirVars>>

\* line 35
ReadUncompressedSize ==
    /\ pc = "uncompressed_size"
    /\ LET r == ReadField("uncompressedBlocksInfoSize", 4)
       IN  /\ pos' = r.pos /\ reads' = Append(reads, r.span)
           /\ IF r.ok
              THEN uncompressed_size' = r.v /\ pc' = "flags" /\ err' = err
              ELSE uncompressed_size' = uncompressed_size /\ Crash("struct.error")
    /\ UNCHANGED <<dumpVars, cmpVars, toolVars>>
    /\ UNCHANGED <<input, file, sig, sig_str, version, player_ver, engine_ver,
                   bundle_size, compressed_size, flags, strVars, locVars, dirVars>>

\* line 36
ReadFlags ==
    /\ pc = "flags"
    /\ LET r == ReadField("flags", 4)
       IN  /\ pos' = r.pos /\ reads' = Append(reads, r.span)
           /\ IF r.ok THEN flags' = r.v /\ pc' = "locate" /\ err' = err
              ELSE flags' = flags /\ Crash("struct.error")
    /\ UNCHANGED <<dumpVars, cmpVars, toolVars>>
    /\ UNCHANGED <<input, file, sig, sig_str, version, player_ver, engine_ver,
                   bundle_size, compressed_size, uncompressed_size, strVars, locVars,
                   dirVars>>

\* a faulty variant of DirStart: the flag is ignored
DirStartEmbedded(fl, p, csize, flen) == p

\* line 47-49: where the compressed directory starts; f.seek(-compressed_size, 2)
\* when flags & 0x80, else the position the header left
DirStart(fl, p, csize, flen) ==
    IF BitAnd128(fl) # 0 THEN flen - csize ELSE p

\* line 47-53: the seek and compressed_data = f.read(compressed_size).  A seek
\* to before the start of the file is OSError, outside the try block.
ReadBlocksInfo ==
    /\ pc = "locate"
    /\ LET at == DirStart(flags, pos, compressed_size, Len(file))
       IN  IF at < 0
           THEN /\ Crash("OSError")
                /\ UNCHANGED <<pos, locVars>>
           ELSE /\ pos_before' = at
                /\ compressed_data' = ReadAt(at, compressed_size)
                /\ pos' = at + Len(ReadAt(at, compressed_size))
                /\ pc' = "decompress"
                /\ UNCHANGED <<err, decompressed>>
    /\ UNCHANGED <<dumpVars, cmpVars, toolVars>>
    /\ UNCHANGED <<input, file, reads, hdrVars, strVars, dirVars>>

\* what lz4.block.decompress may return: the decoder's result, and for a
\* destination of hundreds of megabytes also a failure to allocate it
DecompressResults(src, cap) ==
    {LZ4Decompress(src, cap)} \cup (IF cap >= 2^28 THEN {LZ4Fail} ELSE {})

\* a faulty variant of Raise: the error is noted and the loop resumes with the next record
RaiseAndResume(e, resume) == pc' = resume /\ err' = e

\* line 58, 115-118: an exception inside the try block ends the parse in the
\* handler, whatever the record that raised it
Raise(e, resume) == pc' = "failed" /\ err' = e

\* line 57-60: decompressed = lz4.block.decompress(compressed_data,
\* uncompressed_size=uncompressed_size), whatever the codec tag in flags
Decompress ==
    /\ pc = "decompress"
    /\ \E r \in DecompressResults(compressed_data, uncompressed_size) :
          IF r.ok
          THEN decompressed' = r.out /\ pc' = "hash" /\ err' = err
          ELSE decompressed' = decompressed /\ Raise("LZ4BlockError", "hash")
    /\ UNCHANGED <<dumpVars, cmpVars, toolVars>>
    /\ UNCHANGED <<input, file, pos, reads, hdrVars, strVars, pos_before,
                   compressed_data, dirVars>>

\* decompressed[offset + a : offset + b]
Field(a, b) == Slice(decompressed, offset + a, offset + b)

\* line 69-74: the hash is a slice, which is short rather than an error
ParseHash ==
    /\ pc = "hash"
    /\ hash_val' = Slice(decompressed, 0, 16)
    /\ offset' = 16
    /\ pc' = "block_count"
    /\ UNCHANGED <<dumpVars, cmpVars, toolVars>>
    /\ UNCHANGED <<input, file, pos, err, reads, hdrVars, strVars, locVars,
                   block_count, node_count, loop_i, blocks, nodes, path_bytes,
                   start_offset, node_fields, consumed>>

\* line 77-79, and the entry of the block loop
ParseBlockCount ==
    /\ pc = "block_count"
    /\ LET u == Unpack(4, Field(0, 4))
       IN  IF u.ok
           THEN /\ block_count' = u.v
                /\ offset' = offset + 4
                /\ loop_i' = 0
                /\ pc' = IF u.v > 0 THEN "block" ELSE "node_count"
                /\ err' = err
           ELSE /\ Raise("struct.error", "node_count")
                /\ UNCHANGED <<block_count, offset, loop_i>>
    /\ UNCHANGED <<dumpVars, cmpVars, toolVars>>
    /\ UNCHANGED <<input, file, pos, reads, hdrVars, strVars, locVars, hash_val,
                   node_count, blocks, nodes, path_bytes, start_offset, node_fields,
                   consumed>>

\* a faulty variant of BlockStride: the u16 flags left out of the stride
BlockStrideShort == 4 + 4

\* line 87: offset += 10
BlockStride == 10

\* the program counter after record k of a loop of n records
AfterRecord(k, n, again, after) == IF k + 1 < n THEN again ELSE after

\* line 82-87: one block record
ParseBlock ==
    /\ pc = "block"
    /\ LET uncomp == Unpack(4, Field(0, 4))
           comp == Unpack(4, Field(4, 8))
           flags_block == Unpack(2, Field(8, 10))
           next == AfterRecord(loop_i, block_count, "block", "node_count")
       IN  IF uncomp.ok /\ comp.ok /\ flags_block.ok
           THEN /\ blocks' = Append(blocks, [uncomp |-> uncomp.v, comp |-> comp.v,
                                             flags |-> flags_block.v])
                /\ offset' = offset + BlockStride
                /\ loop_i' = loop_i + 1
                /\ pc' = next
                /\ err' = err
           ELSE /\ Raise("struct.error", next)
                /\ UNCHANGED <<blocks, offset, loop_i>>
    /\ UNCHANGED <<dumpVars, cmpVars, toolVars>>
    /\ UNCHANGED <<input, file, pos, reads, hdrVars, strVars, locVars, hash_val,
                   block_count, node_count, nodes, path_bytes, start_offset,
                   node_fields, consumed>>

\* line 90-92, and the entry of the node loop
ParseNodeCount ==
    /\ pc = "node_count"
    /\ LET u == Unpack(4, Field(0, 4))
       IN  IF u.ok
           THEN /\ node_count' = u.v
                /\ offset' = offset + 4
                /\ loop_i' = 0
                /\ pc' = IF u.v > 0 THEN "node" ELSE "total"
                /\ err' = err
           ELSE /\ Raise("struct.error", "total")
                /\ UNCHANGED <<node_count, offset, loop_i>>
    /\ UNCHANGED <<dumpVars, cmpVars, toolVars>>
    /\ UNCHANGED <<input, file, pos, reads, hdrVars, strVars, locVars, hash_val,
                   block_count, blocks, nodes, path_bytes, start_offset, node_fields,
                   consumed>>

\* line 96-103: the fixed part of one node record
ParseNodeFields ==
    /\ pc = "node"
    /\ LET node_offset == Unpack(8, Field(0, 8))
           node_size == Unpack(8, Field(8, 16))
           node_flags == Unpack(4, Field(16, 20))
       IN  IF node_offset.ok /\ node_size.ok /\ node_flags.ok
           THEN /\ node_fields' = <<node_offset.v, node_size.v, node_flags.v>>
                /\ offset' = offset + 20
                /\ path_bytes' = <<>>
                /\ start_offset' = offset + 20
                /\ pc' = "path"
                /\ err' = err
           ELSE /\ Raise("struct.error",
                         AfterRecord(loop_i, node_count, "node", "total"))
                /\ UNCHANGED <<node_fields, offset, path_bytes, start_offset>>
    /\ UNCHANGED <<dumpVars, cmpVars, toolVars>>
    /\ UNCHANGED <<input, file, pos, reads, hdrVars, strVars, locVars, hash_val,
                   block_count, node_count, loop_i, blocks, nodes, consumed>>

\* line 104: while offset < len(decompressed) and decompressed[offset] != 0
PathGoesOn == offset < Len(decompressed) /\ decompressed[offset + 1] # 0

\* line 104-111: one iteration of the path loop, and what follows the loop:
\* the terminator is skipped whether or not the loop stopped on one
ParsePathStep ==
    /\ pc = "path"
    /\ IF PathGoesOn
       THEN /\ path_bytes' = Append(path_bytes, decompressed[offset + 1])
            /\ offset' = offset + 1
            /\ UNCHANGED <<pc, err, nodes, loop_i>>
       ELSE LET d == DecodeUtf8(path_bytes)
                next == AfterRecord(loop_i, node_count, "node", "total")
            IN  /\ offset' = offset + 1
                /\ path_bytes' = path_bytes
                /\ IF d.ok
                   THEN /\ nodes' = Append(nodes,
                              [offset |-> node_fields[1], size |-> node_fields[2],
                               flags |-> node_fields[3], path |-> d.s,
                               from |-> start_offset, to |-> offset,
                               nbytes |-> Len(path_bytes),
                               terminated |-> offset < Len(decompressed)])
                        /\ loop_i' = loop_i + 1
                        /\ pc' = next
                        /\ err' = err
                   ELSE /\ Raise("UnicodeDecodeError", next)
                        /\ UNCHANGED <<nodes, loop_i>>
    /\ UNCHANGED <<dumpVars, cmpVars, toolVars>>
    /\ UNCHANGED <<input, file, pos, reads, hdrVars, strVars, locVars, hash_val,
                   block_count, node_count, blocks, start_offset, node_fields,
                   consumed>>

\* line 113: Total bytes consumed
PrintTotal ==
    /\ pc = "total"
    /\ consumed' = offset
    /\ pc' = "done"
    /\ UNCHANGED <<dumpVars, cmpVars, toolVars>>
    /\ UNCHANGED <<input, file, pos, err, reads, hdrVars, strVars, locVars, offset,
                   hash_val, block_count, node_count, loop_i, blocks, nodes,
                   path_bytes, start_offset, node_fields>>

NextBundle ==
    \/ ReadSignature
    \/ ReadVersion
    \/ ReadCStringStep
    \/ ReadBundleSize
    \/ ReadCompressedSize
    \/ ReadUncompressedSize
    \/ ReadFlags
    \/ ReadBlocksInfo
    \/ Decompress
    \/ ParseHash
    \/ ParseBlockCount
    \/ ParseBlock
    \/ ParseNodeCount
    \/ ParseNodeFields
    \/ ParsePathStep
    \/ PrintTotal

vars == <<bundleVars, dumpVars, cmpVars, toolVars>>

SpecBundle == InitBundle /\ [][NextBundle]_vars

----------------------------------------------------------------------------
(* Claims about debug_real_bundle.py, checked under SpecBundle.            *)

HeaderOrder == <<"signature", "formatVersion", "playerVersion", "engineVersion",
                 "bundleSize", "compressedBlocksInfoSize",
                 "uncompressedBlocksInfoSize", "flags">>

AfterHeader == {"locate", "decompress", "hash", "block_count", "block",
                "node_count", "node", "path", "total", "done", "failed"}
AfterLocate == AfterHeader \ {"locate"}
AfterDecompress == AfterLocate \ {"decompress"}

\* a whole bundle in the documented layout: signature, formatVersion, strings
Documented == input.layout = "format" /\ input.whole

\* C1: the header fields are read in the stated order with no gap or overlap:
\* the signature is bytes 0..7, formatVersion the four bytes 8..11 right after
\* it, and every later field starts where the one before it ended.
CE_C1_HeaderFieldsContiguous ==
    Documented =>
        /\ \A k \in 1..Len(reads) : reads[k].field = HeaderOrder[k]
        /\ (Len(reads) >= 1 => reads[1].start = 0 /\ reads[1].end = 8)
        /\ (Len(reads) >= 2 => reads[2].start = 8 /\ reads[2].end = 12)
        /\ \A k \in 2..Len(reads) : reads[k].start = reads[k - 1].end

\* the bundle was built in the layout the script reads, nothing cut off
Coherent ==
    /\ input.layout = "packed"
    /\ input.whole
    /\ input.csize = Len(input.comp)

\* the printed nodes without the offsets the script adds to them
NodeTable ==
    [j \in 1..Len(nodes) |-> [offset |-> nodes[j].offset, size |-> nodes[j].size,
                              flags |-> nodes[j].flags, path |-> nodes[j].path]]

\* the file with flags & 0x80 set and the directory bytes moved to its tail
Twin ==
    LET hdrEnd == reads[Len(HeaderOrder)].end
        dirEnd == hdrEnd + compressed_size
    IN  SubSeq(file, 1, hdrEnd - 1) \o <<file[hdrEnd] + BlocksInfoAtEnd>>
        \o SubSeq(file, dirEnd + 1, Len(file)) \o SubSeq(file, hdrEnd + 1, dirEnd)

Tag == flags % 64

\* C3: the directory's codec is chosen by flags & 0x3F: tag 0 passes the bytes
\* through unchanged, an unrecognised tag fails with UnsupportedCodec.
CE_C3_CodecByTag ==
    pc \in AfterDecompress /\ Coherent =>
        /\ (Tag = 0 => err = "none" /\ decompressed = compressed_data)
        /\ (Tag \notin {0, 1, 2, 3} => pc = "failed" /\ err = "UnsupportedCodec")

\* the decompressed buffer is a directory without defect
WellFormedDir ==
    /\ pc \in AfterDecompress
    /\ input.dir.defect = "none"
    /\ decompressed = input.dir.bytes

RECURSIVE NodeBytes(_)
NodeBytes(ns) ==
    IF ns = <<>> THEN 0 ELSE 20 + Len(Head(ns).path) + 1 + NodeBytes(Tail(ns))

\* C4: a well-formed directory of B blocks and N nodes parses without error into
\* the hash, the B blocks and the N nodes in stored order, read big-endian, and
\* the final offset is 16 + 4 + 10*B + 4 + the sum of (20 + path length + 1).
Thm_C4_DirectoryLayout ==
    WellFormedDir =>
        /\ pc # "failed"
        /\ (pc = "done" =>
               /\ hash_val = HashBytes
               /\ block_count = Len(input.dir.blocks)
               /\ blocks = input.dir.blocks
               /\ node_count = Len(input.dir.nodes)
               /\ NodeTable = input.dir.nodes
               /\ consumed = 16 + 4 + 10 * Len(blocks) + 4 + NodeBytes(nodes))

Wit_C4_TwoBlocksTwoNodes ==
    /\ pc = "done"
    /\ WellFormedDir
    /\ Len(blocks) = 2
    /\ Len(nodes) = 2
    /\ Len(nodes[2].path) = 2

\* C5: the parse fails when a record runs past the end of the buffer, a path
\* without terminator included: a completed parse consumed no more than the
\* buffer holds and every path ended on a zero byte inside it.
CE_C5_NoReadPastEnd ==
    pc = "done" =>
        /\ consumed <= Len(decompressed)
        /\ \A j \in 1..Len(nodes) : nodes[j].terminated

\* C6: read_cstring stops at end of file with UnexpectedEndOfData instead of
\* reading on.
CE_C6_CStringStopsAtEof ==
    eofReads > 0 => pc = "crashed" /\ err = "UnexpectedEndOfData"

\* C7: a file whose signature is not the UnityFS tag fails (with
\* InvalidSignature, or at least with some error) and nothing after the
\* signature is read.
CE_C7_InvalidSignature ==
    pc # "sig" /\ Len(sig) = 8 /\ sig # SigUnityFS =>
        /\ pc = "crashed"
        /\ err \in {"InvalidSignature", "UnicodeDecodeError"}
        /\ Len(reads) = 1

\* C8: the first error of the directory parse ends it: the step that raises
\* goes to the handler and reports nothing, and after an error no record is
\* read or reported.
Thm_C8_FirstErrorStops ==
    [][ /\ (err = "none" /\ err' # "none" /\ pc \in AfterLocate =>
               pc' = "failed" /\ UNCHANGED <<blocks, nodes, loop_i>>)
        /\ (err # "none" => UNCHANGED <<pc, blocks, nodes, offset, loop_i>>) ]_vars

Wit_C8_FailedAfterFirstNode ==
    /\ pc = "failed"
    /\ err = "struct.error"
    /\ Len(nodes) = 1
    /\ loop_i = 1
    /\ node_count = 2

\* debug_real_bundle.py is not running
BundleIdle ==
    /\ input = [bytes |-> <<>>] /\ file = <<>> /\ pos = 0 /\ pc = "idle"
    /\ err = "none" /\ reads = <<>>
    /\ sig = <<>> /\ sig_str = <<>> /\ version = 0
    /\ player_ver = <<>> /\ engine_ver = <<>>
    /\ bundle_size = 0 /\ compressed_size = 0 /\ uncompressed_size = 0 /\ flags = 0
    /\ chars = <<>> /\ eofReads = 0
    /\ pos_before = 0 /\ compressed_data = <<>> /\ decompressed = <<>>
    /\ offset = 0 /\ hash_val = <<>> /\ block_count = 0 /\ node_count = 0
    /\ loop_i = 0 /\ blocks = <<>> /\ nodes = <<>>
    /\ path_bytes = <<>> /\ start_offset = 0 /\ node_fields = <<>>
    /\ consumed = -1

----------------------------------------------------------------------------
(* Python values.  A value is a record tagged with its type's name:        *)
(* NoneType, bool, int, float (v is the number's integral value), str,     *)
(* bytes, bytearray, list, tuple, dict (items: the <<key, value>> pairs    *)
(* in insertion order, keys are str or int values) and object (a UnityPy   *)
(* object or enum, repr is what str() gives).                              *)
PyNone == [k |-> "NoneType"]
PyBool(b) == [k |-> "bool", v |-> b]
PyInt(n) == [k |-> "int", v |-> n]
PyFloat(n) == [k |-> "float", v |-> n]
PyStr(s) == [k |-> "str", v |-> s]
PyBytes(b) == [k |-> "bytes", v |-> b]
PyByteArray(b) == [k |-> "bytearray", v |-> b]
PyList(xs) == [k |-> "list", v |-> xs]
PyTuple(xs) == [k |-> "tuple", v |-> xs]
PyDict(items) == [k |-> "dict", items |-> items]
PyObject(repr) == [k |-> "object", repr |-> repr]

\* str(value) of a key or a leaf
StrOf(x) ==
    CASE x.k = "str" -> x.v
      [] x.k = "int" -> ToString(x.v)
      [] x.k = "float" -> ToString(x.v) \o ".0"
      [] x.k = "bool" -> IF x.v THEN "True" ELSE "False"
      [] x.k = "NoneType" -> "None"
      [] OTHER -> x.repr

\* d[key] = val on the items of a dict: a key that is there keeps its place
RECURSIVE DictSet(_, _, _)
DictSet(items, key, val) ==
    IF items = <<>> THEN <<<<key, val>>>>
    ELSE IF Head(items)[1] = key THEN <<<<key, val>>>> \o Tail(items)
    ELSE <<Head(items)>> \o DictSet(Tail(items), key, val)

DictKeys(d) == {d.items[n][1] : n \in 1..Len(d.items)}
DictGet(d, key) == LET n == CHOOSE n \in 1..Len(d.items) : d.items[n][1] = key
                   IN  d.items[n][2]

B64Alphabet ==
    <<"A", "B", "C", "D", "E", "F", "G", "H", "I", "J", "K", "L", "M", "N",
        "O", "P", "Q", "R", "S", "T", "U", "V", "W", "X", "Y", "Z", "a", "b",
        "c", "d", "e", "f", "g", "h", "i", "j", "k", "l", "m", "n", "o", "p",
        "q", "r", "s", "t", "u", "v", "w", "x", "y", "z", "0", "1", "2", "3",
        "4", "5", "6", "7", "8", "9", "+", "/">>

\* base64.b64encode(value).decode('ascii')
RECURSIVE B64Encode(_)
B64Encode(bytes) ==
    IF bytes = <<>> THEN ""
    ELSE LET n == Min(3, Len(bytes))
             b1 == bytes[1]
             b2 == IF n >= 2 THEN bytes[2] ELSE 0
             b3 == IF n >= 3 THEN bytes[3] ELSE 0
         IN  B64Alphabet[(b1 \div 4) + 1]
             \o B64Alphabet[(b1 % 4) * 16 + (b2 \div 16) + 1]
             \o (IF n >= 2 THEN B64Alphabet[(b2 % 16) * 4 + (b3 \div 64) + 1] ELSE "=")
             \o (IF n >= 3 THEN B64Alphabet[(b3 % 64) + 1] ELSE "=")
             \o B64Encode(SubSeq(bytes, n + 1, Len(bytes)))

----------------------------------------------------------------------------
(* scripts/dump_unitypy_object_tree.py                                     *)

\* line 18-32: _normalize
RECURSIVE _normalize(_)
RECURSIVE NormalizeItems(_, _)
NormalizeItems(items, acc) ==
    IF items = <<>> THEN acc
    ELSE NormalizeItems(Tail(items),
             DictSet(acc, PyStr(StrOf(Head(items)[1])), _normalize(Head(items)[2])))

_normalize(value) ==
    CASE value.k \in {"NoneType", "str", "int", "float", "bool"} -> value
      [] value.k \in {"bytes", "bytearray"} ->
             PyDict(<<<<PyStr("__bytes__"), PyStr(B64Encode(value.v))>>>>)
      [] value.k = "dict" -> PyDict(NormalizeItems(value.items, <<>>))
      [] value.k \in {"list", "tuple"} ->
             PyList([n \in 1..Len(value.v) |-> _normalize(value.v[n])])
      [] OTHER -> PyStr(StrOf(value))

\* the tree of an error: {"__error__": str(ex)}
ErrorTree(msg) == PyDict(<<<<PyStr("__error__"), PyStr(msg)>>>>)

\* line 40-43: tree = obj.read_typetree(), or the error's tree
ReadTypetree(obj) == IF obj.raises THEN ErrorTree(obj.message) ELSE obj.typetree

\* line 45-52: the entry of one object
EntryOf(obj) ==
    [pathId |-> obj.path_id, classId |-> obj.class_id, type |-> obj.type,
     tree |-> _normalize(ReadTypetree(obj))]

\* a faulty variant of AppendEntry: an object whose read_typetree raised is passed over
AppendEntrySkipFailed(objs, obj) ==
    IF obj.raises THEN objs ELSE Append(objs, EntryOf(obj))

\* line 39-52: the loop body
AppendEntry(objs, obj) == Append(objs, EntryOf(obj))

\* the objects UnityPy finds in the inputs
MeshObject ==
    [path_id |-> 1, class_id |-> 43, type |-> PyStr("Mesh"), raises |-> FALSE,
     message |-> "",
     typetree |-> PyDict(<< <<PyStr("m_Name"), PyStr("hat")>>,
                            <<PyStr("m_IndexBuffer"), PyBytes(<<1, 2>>)>>,
                            <<PyInt(1), PyTuple(<<PyInt(3), PyNone>>)>>,
                            <<PyStr("1"), PyObject("ClassIDType.Mesh")>> >>)]
BrokenObject ==
    [path_id |-> 2, class_id |-> 1, type |-> PyStr("GameObject"), raises |-> TRUE,
     message |-> "bad node", typetree |-> PyNone]
UntypedObject ==
    [path_id |-> 3, class_id |-> 28, type |-> PyNone, raises |-> FALSE,
     message |-> "", typetree |-> PyList(<<PyByteArray(<<255, 254, 253, 0>>),
                                           PyFloat(1), PyBool(TRUE)>>)]
BrokenTwin ==
    [path_id |-> 1, class_id |-> 43, type |-> PyStr("Mesh"), raises |-> TRUE,
     message |-> "unexpected end of data", typetree |-> PyNone]

UnityObjects == {MeshObject, BrokenObject, UntypedObject, BrokenTwin}

InitDump ==
    /\ env_objects \in SeqsOver(UnityObjects, MaxObjects)
    /\ dump_i = 0
    /\ objects = <<>>
    /\ dump_result = [returned |-> FALSE]
    /\ dump_pc = "loop"
    /\ BundleIdle
    /\ CompareIdle
    /\ ToolsIdle

\* line 39-52: one turn of the for loop
DumpObject ==
    /\ dump_pc = "loop"
    /\ dump_i < Len(env_objects)
    /\ objects' = AppendEntry(objects, env_objects[dump_i + 1])
    /\ dump_i' = dump_i + 1
    /\ UNCHANGED <<env_objects, dump_result, dump_pc>>
    /\ UNCHANGED <<bundleVars, cmpVars, toolVars>>

\* line 54-59: the dict returned after the loop
DumpReturn ==
    /\ dump_pc = "loop"
    /\ dump_i = Len(env_objects)
    /\ dump_result' = [returned |-> TRUE, source |-> "bundle.hhh",
                       unityVersion |-> PyNone, objectCount |-> Len(objects),
                       objects |-> objects]
    /\ dump_pc' = "returned"
    /\ UNCHANGED <<env_objects, dump_i, objects>>
    /\ UNCHANGED <<bundleVars, cmpVars, toolVars>>

NextDump ==
    \/ DumpObject
    \/ DumpReturn

SpecDump == InitDump /\ [][NextDump]_vars

\* C9: dump_object_trees gives one entry per object, in input order, whichever
\* objects fail in read_typetree; a failing object's tree is {"__error__":
\* message}; objectCount is the number of input objects.
Thm_C9_OneEntryPerObject ==
    /\ Len(objects) = dump_i
    /\ (dump_pc = "returned" =>
           /\ dump_result.objectCount = Len(env_objects)
           /\ Len(dump_result.objects) = Len(env_objects)
           /\ \A n \in 1..Len(env_objects) :
                  /\ dump_result.objects[n].pathId = env_objects[n].path_id
                  /\ dump_result.objects[n].classId = env_objects[n].class_id
                  /\ (env_objects[n].raises =>
                         dump_result.objects[n].tree
                             = ErrorTree(env_objects[n].message)))

Wit_C9_FailureThenSuccess ==
    /\ dump_pc = "returned"
    /\ Len(env_objects) = 3
    /\ env_objects[1].raises
    /\ ~env_objects[2].raises
    /\ env_objects[3].raises
    /\ dump_result.objects[2].tree.k = "dict"
    /\ Len(dump_result.objects[2].tree.items) = 3

----------------------------------------------------------------------------
(* scripts/compare_object_trees.py                                         *)

\* line 14-21: _normalize_bytes.  The value under "__bytes__" is returned as
\* it is, not normalised in turn.
RECURSIVE _normalize_bytes(_)
_normalize_bytes(obj) ==
    CASE obj.k = "dict" ->
             IF Len(obj.items) = 1 /\ obj.items[1][1] = PyStr("__bytes__")
             THEN obj.items[1][2]
             ELSE PyDict([n \in 1..Len(obj.items) |->
                            <<obj.items[n][1], _normalize_bytes(obj.items[n][2])>>])
      [] obj.k = "list" -> PyList([n \in 1..Len(obj.v) |-> _normalize_bytes(obj.v[n])])
      [] OTHER -> obj

\* the keys of the inputs in the order sorted() gives them (code points)
KeyOrder == <<"__bytes__", "a", "b", "c", "d", "objects", "pathId", "tree">>

\* line 32: sorted(keys) for a set of str keys
SortedKeys(keys) ==
    LET RECURSIVE Pick(_)
        Pick(n) == IF n > Len(KeyOrder) THEN <<>>
                   ELSE (IF PyStr(KeyOrder[n]) \in keys THEN <<PyStr(KeyOrder[n])>>
                         ELSE <<>>) \o Pick(n + 1)
    IN  Pick(1)

\* line 70-80: sorted(ids) for a set of int path ids
RECURSIVE SortedIds(_)
SortedIds(ids) ==
    IF ids = {} THEN <<>>
    ELSE LET m == CHOOSE x \in ids : \A y \in ids : x.v <= y.v
         IN  <<m>> \o SortedIds(ids \ {m})

\* line 67-68: {o["pathId"]: o for o in doc.get("objects", [])}
ObjectsById(doc) ==
    LET objs == IF PyStr("objects") \in DictKeys(doc)
                THEN DictGet(doc, PyStr("objects")).v ELSE <<>>
        RECURSIVE Fill(_, _)
        Fill(n, acc) == IF n > Len(objs) THEN acc
                        ELSE Fill(n + 1, DictSet(acc, DictGet(objs[n], PyStr("pathId")),
                                                 objs[n]))
    IN  PyDict(Fill(1, <<>>))

\* a faulty variant of LoopCapReached: the test inside the loops is left out
LoopNeverCapped(out, max) == FALSE

\* line 39-40, 48-49: if len(out) >= max_diffs: return, after each key or item
LoopCapReached(out, max) == Len(out) >= max

\* line 25-26, 82: if len(out) >= max_diffs
CapReached(out, max) == Len(out) >= max

Frame(a, b, path) == [a |-> a, b |-> b, path |-> path, at |-> "call",
                      keys |-> <<>>, n |-> 0]

Top == stack[Len(stack)]
Pop == SubSeq(stack, 1, Len(stack) - 1)
Replace(frame) == Append(Pop, frame)

cmpInputs == <<json_u, json_c, max_diffs, u_objs, c_objs, todo, report, cmp_pc>>

\* line 25-26: the call returns at once, the cap is reached
DiffReturnAtCap ==
    /\ stack # <<>> /\ Top.at = "call"
    /\ CapReached(diffs, max_diffs)
    /\ stack' = Pop
    /\ UNCHANGED <<diffs, inspections, cmpInputs, bundleVars, dumpVars, toolVars>>

\* line 27-29: the types differ
DiffType ==
    /\ stack # <<>> /\ Top.at = "call"
    /\ ~CapReached(diffs, max_diffs)
    /\ Top.a.k # Top.b.k
    /\ diffs' = Append(diffs, "TYPE " \o Top.path \o ": " \o Top.a.k \o " != " \o Top.b.k)
    /\ stack' = Pop
    /\ inspections' = inspections + 1
    /\ UNCHANGED <<cmpInputs, bundleVars, dumpVars, toolVars>>

\* line 30-32, 41: two dicts; without keys the loop is empty and the call returns
DiffEnterDict ==
    /\ stack # <<>> /\ Top.at = "call"
    /\ ~CapReached(diffs, max_diffs)
    /\ Top.a.k = Top.b.k /\ Top.a.k = "dict"
    /\ LET keys == SortedKeys(DictKeys(Top.a) \cup DictKeys(Top.b))
       IN  stack' = IF keys = <<>> THEN Pop
                    ELSE Replace([Top EXCEPT !.at = "dict", !.keys = keys, !.n = 1])
    /\ inspections' = inspections + 1
    /\ UNCHANGED <<diffs, cmpInputs, bundleVars, dumpVars, toolVars>>

\* line 42-45, 50: two lists; lengths that differ are one diff
DiffEnterList ==
    /\ stack # <<>> /\ Top.at = "call"
    /\ ~CapReached(diffs, max_diffs)
    /\ Top.a.k = Top.b.k /\ Top.a.k = "list"
    /\ IF Len(Top.a.v) # Len(Top.b.v)
       THEN /\ diffs' = Append(diffs, "LEN " \o Top.path \o ": " \o ToString(Len(Top.a.v))
                                      \o " != " \o ToString(Len(Top.b.v)))
            /\ stack' = Pop
       ELSE /\ diffs' = diffs
            /\ stack' = IF Top.a.v = <<>> THEN Pop
                        ELSE Replace([Top EXCEPT !.at = "list", !.n = 1])
    /\ inspections' = inspections + 1
    /\ UNCHANGED <<cmpInputs, bundleVars, dumpVars, toolVars>>

\* line 51-52: two leaves of one type
DiffLeaf ==
    /\ stack # <<>> /\ Top.at = "call"
    /\ ~CapReached(diffs, max_diffs)
    /\ Top.a.k = Top.b.k /\ Top.a.k \notin {"dict", "list"}
    /\ diffs' = IF Top.a # Top.b
                THEN Append(diffs, "VAL " \o Top.path \o ": " \o StrOf(Top.a)
                                   \o " != " \o StrOf(Top.b))
                ELSE diffs
    /\ stack' = Pop
    /\ inspections' = inspections + 1
    /\ UNCHANGED <<cmpInputs, bundleVars, dumpVars, toolVars>>

\* the loop of a frame after the key or item n: return at the cap or when
\* the keys or items are used up, else go on with n + 1
LoopOn(frame, size, out, again) ==
    IF LoopCapReached(out, max_diffs) \/ frame.n >= size THEN Pop
    ELSE Replace([frame EXCEPT !.at = again, !.n = frame.n + 1])

\* line 32-40: one key of the dict loop: a key of one side only is a diff, a
\* key of both is a call of _diff
DiffDictKey ==
    /\ stack # <<>> /\ Top.at = "dict"
    /\ LET key == Top.keys[Top.n]
           path == Top.path \o "." \o key.v
       IN  IF key \notin DictKeys(Top.a)
           THEN /\ diffs' = Append(diffs, "MISSING " \o path \o ": only in C#")
                /\ stack' = LoopOn(Top, Len(Top.keys), diffs', "dict")
           ELSE IF key \notin DictKeys(Top.b)
           THEN /\ diffs' = Append(diffs, "MISSING " \o path \o ": only in UnityPy")
                /\ stack' = LoopOn(Top, Len(Top.keys), diffs', "dict")
           ELSE /\ diffs' = diffs
                /\ stack' = Append(Replace([Top EXCEPT !.at = "dict_called"]),
                                   Frame(DictGet(Top.a, key), DictGet(Top.b, key), path))
    /\ UNCHANGED <<inspections, cmpInputs, bundleVars, dumpVars, toolVars>>

\* line 39-40: after the call for a key has returned
DiffDictReturn ==
    /\ stack # <<>> /\ Top.at = "dict_called"
    /\ stack' = LoopOn(Top, Len(Top.keys), diffs, "dict")
    /\ UNCHANGED <<diffs, inspections, cmpInputs, bundleVars, dumpVars, toolVars>>

\* line 46-47: one item of the list loop
DiffListItem ==
    /\ stack # <<>> /\ Top.at = "list"
    /\ stack' = Append(Replace([Top EXCEPT !.at = "list_called"]),
                       Frame(Top.a.v[Top.n], Top.b.v[Top.n],
                             Top.path \o "[" \o ToString(Top.n - 1) \o "]"))
    /\ UNCHANGED <<diffs, inspections, cmpInputs, bundleVars, dumpVars, toolVars>>

\* line 48-49: after the call for an item has returned
DiffListReturn ==
    /\ stack # <<>> /\ Top.at = "list_called"
    /\ stack' = LoopOn(Top, Len(Top.a.v), diffs, "list")
    /\ UNCHANGED <<diffs, inspections, cmpInputs, bundleVars, dumpVars, toolVars>>

\* line 62-79: both files loaded and normalised, the objects keyed by pathId
CompareLoad ==
    /\ cmp_pc = "load"
    /\ u_objs' = ObjectsById(_normalize_bytes(json_u))
    /\ c_objs' = ObjectsById(_normalize_bytes(json_c))
    /\ todo' = SortedIds(DictKeys(u_objs') \cap DictKeys(c_objs'))
    /\ cmp_pc' = "loop"
    /\ UNCHANGED <<json_u, json_c, max_diffs, diffs, stack, inspections, report>>
    /\ UNCHANGED <<bundleVars, dumpVars, toolVars>>

\* line 80-81: the next common path id; _diff is called on its two objects
CompareObject ==
    /\ cmp_pc = "loop" /\ todo # <<>>
    /\ stack' = <<Frame(DictGet(u_objs, Head(todo)), DictGet(c_objs, Head(todo)),
                        "object[" \o ToString(Head(todo).v) \o "]")>>
    /\ todo' = Tail(todo)
    /\ cmp_pc' = "called"
    /\ UNCHANGED <<json_u, json_c, max_diffs, u_objs, c_objs, diffs, inspections, report>>
    /\ UNCHANGED <<bundleVars, dumpVars, toolVars>>

\* line 82-83: after the call: break at the cap
CompareAfter ==
    /\ cmp_pc = "called" /\ stack = <<>>
    /\ cmp_pc' = IF CapReached(diffs, max_diffs) THEN "report" ELSE "loop"
    /\ UNCHANGED <<json_u, json_c, max_diffs, u_objs, c_objs, todo, diffs, stack,
                   inspections, report>>
    /\ UNCHANGED <<bundleVars, dumpVars, toolVars>>

\* line 80, 85-90: the loop is over (used up or left by break): the report
CompareReport ==
    /\ \/ cmp_pc = "report"
       \/ cmp_pc = "loop" /\ todo = <<>>
    /\ report' = IF diffs = <<>> THEN "No diffs found (within compared objects)."
                 ELSE "Diffs:"
    /\ cmp_pc' = "done"
    /\ UNCHANGED <<json_u, json_c, max_diffs, u_objs, c_objs, todo, diffs, stack,
                   inspections>>
    /\ UNCHANGED <<bundleVars, dumpVars, toolVars>>

\* the trees of the inputs
TreeA == PyDict(<< <<PyStr("a"), PyInt(1)>>,
                   <<PyStr("b"), PyList(<<PyInt(1), PyInt(2)>>)>>,
                   <<PyStr("d"), PyDict(<<<<PyStr("__bytes__"), PyStr("AQI=")>>>>)>> >>)
TreeB == PyDict(<< <<PyStr("d"), PyStr("AQI=")>>,
                   <<PyStr("b"), PyList(<<PyInt(1), PyInt(3)>>)>>,
                   <<PyStr("a"), PyInt(1)>> >>)
TreeC == PyDict(<< <<PyStr("a"), PyFloat(1)>>, <<PyStr("c"), PyNone>> >>)
TreeD == PyDict(<< <<PyStr("a"), PyInt(1)>>, <<PyStr("b"), PyList(<<PyInt(1)>>)>>,
                   <<PyStr("d"), PyStr("AQI=")>> >>)
Trees == {TreeA, TreeB, TreeC, TreeD}

PathIds == 1..2

JsonObject(id, tree) == PyDict(<< <<PyStr("pathId"), PyInt(id)>>, <<PyStr("tree"), tree>> >>)

\* a file with, for each path id, no object or an object with one of the trees
JsonOf(f, descending) ==
    LET RECURSIVE Objs(_)
        Objs(id) == IF id \notin PathIds THEN <<>>
                    ELSE LET rest == Objs(id + 1)
                             this == IF f[id] = PyNone THEN <<>>
                                     ELSE <<JsonObject(id, f[id])>>
                         IN  IF descending THEN rest \o this ELSE this \o rest
    IN  PyDict(<< <<PyStr("objects"), PyList(Objs(1))>> >>)

JsonFiles ==
    {JsonOf(f, d) : f \in [PathIds -> Trees \cup {PyNone}], d \in BOOLEAN}
    \cup {PyDict(<<>>),
          PyDict(<< <<PyStr("objects"),
                      PyList(<<JsonObject(1, TreeA), JsonObject(1, TreeC)>>)>> >>)}

InitCompare ==
    /\ json_u \in JsonFiles
    /\ json_c \in JsonFiles
    /\ max_diffs \in 0..MaxDiffs
    /\ u_objs = <<>> /\ c_objs = <<>> /\ todo = <<>> /\ diffs = <<>>
    /\ stack = <<>> /\ inspections = 0 /\ report = "" /\ cmp_pc = "load"
    /\ BundleIdle
    /\ DumpIdle
    /\ ToolsIdle

NextCompare ==
    \/ CompareLoad
    \/ CompareObject
    \/ DiffReturnAtCap
    \/ DiffType
    \/ DiffEnterDict
    \/ DiffEnterList
    \/ DiffLeaf
    \/ DiffDictKey
    \/ DiffDictReturn
    \/ DiffListItem
    \/ DiffListReturn
    \/ CompareAfter
    \/ CompareReport

SpecCompare == InitCompare /\ [][NextCompare]_vars

\* C10: the diffs collected never exceed --max (max_diffs >= 0), in every state
\* of _diff and of the loop of main; once the cap is reached nothing more is
\* compared: no call of _diff gets past its first test, no diff is added, and
\* main leaves its loop when the call in progress has returned (the loop is at
\* its head with the cap reached only at the start, for --max 0).
Thm_C10_DiffsCapped ==
    /\ [](Len(diffs) <= max_diffs)
    /\ [](cmp_pc = "loop" /\ CapReached(diffs, max_diffs) =>
              max_diffs = 0 /\ inspections = 0)
    /\ [][ CapReached(diffs, max_diffs) =>
              /\ inspections' = inspections
              /\ diffs' = diffs
              /\ (cmp_pc = "called" => cmp_pc' # "loop") ]_vars

Wit_C10_CapReachedMidObject ==
    /\ cmp_pc = "done"
    /\ max_diffs = 2
    /\ Len(diffs) = 2
    /\ todo # <<>>
    /\ inspections > 2

\* the two values are structurally identical: same types, same key sets, same
\* list lengths, equal leaves
RECURSIVE Identical(_, _)
Identical(a, b) ==
    /\ a.k = b.k
    /\ CASE a.k = "dict" ->
                /\ DictKeys(a) = DictKeys(b)
                /\ \A key \in DictKeys(a) : Identical(DictGet(a, key), DictGet(b, key))
         [] a.k = "list" ->
                /\ Len(a.v) = Len(b.v)
                /\ \A n \in 1..Len(a.v) : Identical(a.v[n], b.v[n])
         [] OTHER -> a = b

\* the objects of every path id of both inputs agree, after _normalize_bytes
ComparedObjectsAgree ==
    \A id \in DictKeys(u_objs) \cap DictKeys(c_objs) :
        Identical(DictGet(u_objs, id), DictGet(c_objs, id))

\* C12: for every two inputs and every --max, when main has reported, the diff
\* list is empty ("No diffs found") exactly when the objects of every path id
\* of both inputs are structurally identical after bytes normalisation;
\* objects of one side only add no diff.
CE_C12_NoDiffsIffObjectsAgree ==
    cmp_pc = "done" =>
        /\ (diffs = <<>>) = (report = "No diffs found (within compared objects).")
        /\ (diffs = <<>>) = ComparedObjectsAgree

\* the same for --max of 1 or more
C12_HoldsForPositiveMax ==
    cmp_pc = "done" /\ max_diffs >= 1 => ((diffs = <<>>) = ComparedObjectsAgree)

----------------------------------------------------------------------------
(* scripts/generate_reference_json.py: process_all_fixtures and the calls  *)
(* of process_bundle it makes.  A path of the directory is its rank in the *)
(* order of Path (1 is the least); what is at a path is one of             *)
(*   "bundle"    a .hhh file UnityPy parses                                *)
(*   "corrupt"   a .hhh file UnityPy.load or the metadata walk raises on   *)
(*   "dangling"  a .hhh link without target: glob lists it, exists() is    *)
(*               False                                                     *)
(*   "other"     a file of another suffix (an _expected.json)              *)
(*   "absent"    nothing                                                   *)

Paths == 1..MaxFixtures
Kinds == {"bundle", "corrupt", "dangling", "other", "absent"}

FixtureDirs ==
    {[exists |-> TRUE, entries |-> e] : e \in [Paths -> Kinds]}
    \cup {[exists |-> FALSE, entries |-> [p \in Paths |-> "absent"]]}

\* line 147: fixtures_dir.glob("*.hhh"), as a set
Glob(dir) == {p \in Paths : dir.entries[p] \in {"bundle", "corrupt", "dangling"}}

\* line 147: the lists glob may give for a set of paths: any order
Listings(S) ==
    {l \in [1..Cardinality(S) -> S] : \A m, n \in 1..Cardinality(S) : l[m] = l[n] => m = n}

\* line 155: sorted(bundle_files)
RECURSIVE SortedPaths(_)
SortedPaths(l) ==
    IF l = <<>> THEN <<>>
    ELSE LET n == CHOOSE m \in 1..Len(l) : \A o \in 1..Len(l) : l[m] <= l[o]
         IN  <<l[n]>> \o SortedPaths(SubSeq(l, 1, n - 1) \o SubSeq(l, n + 1, Len(l)))

InitFixtures ==
    /\ fixtures_dir \in FixtureDirs
    /\ bundle_files = <<>> /\ fx_todo = <<>> /\ bundle_path = 0
    /\ fx_calls = <<>> /\ fx_written = <<>> /\ fx_pc = "start"
    /\ BundleIdle
    /\ DumpIdle
    /\ CompareIdle
    /\ SnapshotIdle
    /\ EnrichIdle

\* line 142-153: no directory is sys.exit(1), no .hhh file is a warning and
\* return, else the loop over the sorted list begins
FixturesStart ==
    /\ fx_pc = "start"
    /\ IF ~fixtures_dir.exists
       THEN /\ fx_pc' = "exit"
            /\ UNCHANGED <<bundle_files, fx_todo>>
       ELSE \E l \in Listings(Glob(fixtures_dir)) :
                /\ bundle_files' = l
                /\ IF l = <<>>
                   THEN fx_pc' = "returned" /\ fx_todo' = fx_todo
                   ELSE fx_pc' = "loop" /\ fx_todo' = SortedPaths(l)
    /\ UNCHANGED <<fixtures_dir, bundle_path, fx_calls, fx_written>>
    /\ UNCHANGED <<bundleVars, dumpVars, cmpVars, snapVars, enrVars>>

\* line 155-156, 104-112: the next path; process_bundle is called with it and
\* leaves with sys.exit(1) when the path does not exist
ProcessBundleCall ==
    /\ fx_pc = "loop" /\ fx_todo # <<>>
    /\ bundle_path' = Head(fx_todo)
    /\ fx_todo' = Tail(fx_todo)
    /\ fx_calls' = Append(fx_calls, Head(fx_todo))
    /\ fx_pc' = IF fixtures_dir.entries[Head(fx_todo)] = "dangling" THEN "exit"
                ELSE "parse"
    /\ UNCHANGED <<fixtures_dir, bundle_files, fx_written>>
    /\ UNCHANGED <<bundleVars, dumpVars, cmpVars, snapVars, enrVars>>

\* line 114-132, 157: the bundle is parsed and its JSON written, or the
\* exception is printed and raised again: nothing in process_all_fixtures
\* catches it
ProcessBundleParse ==
    /\ fx_pc = "parse"
    /\ IF fixtures_dir.entries[bundle_path] = "bundle"
       THEN /\ fx_written' = Append(fx_written, bundle_path)
            /\ fx_pc' = "loop"
       ELSE /\ fx_written' = fx_written
            /\ fx_pc' = "raised"
    /\ UNCHANGED <<fixtures_dir, bundle_files, fx_todo, bundle_path, fx_calls>>
    /\ UNCHANGED <<bundleVars, dumpVars, cmpVars, snapVars, enrVars>>

\* line 155: the list is used up
FixturesReturn ==
    /\ fx_pc = "loop" /\ fx_todo = <<>>
    /\ fx_pc' = "returned"
    /\ UNCHANGED <<fixtures_dir, bundle_files, fx_todo, bundle_path, fx_calls, fx_written>>
    /\ UNCHANGED <<bundleVars, dumpVars, cmpVars, snapVars, enrVars>>

NextFixtures ==
    \/ FixturesStart
    \/ ProcessBundleCall
    \/ ProcessBundleParse
    \/ FixturesReturn

SpecFixtures == InitFixtures /\ [][NextFixtures]_vars

\* C11: when process_all_fixtures has ended, by return or by an exception of
\* a bundle that failed to parse, process_bundle has been called with every
\* .hhh file of the directory, once each, in sorted path order.
CE_C11_EveryBundleProcessed ==
    fx_pc \in {"returned", "raised"} =>
        fx_calls = SortedPaths(bundle_files)

----------------------------------------------------------------------------
(* scripts/generate_real_bundle_references.py: extract_bundle_snapshot.    *)
(* env is what UnityPy.load returned: the attributes it has (signature,    *)
(* objects, container) and their values.  An object of env.objects has a   *)
(* type name ("" when it has no type) and, for a Mesh, what obj.read()     *)
(* gives: the mesh data or an exception.  An access to env or to an object *)
(* outside the inner try may raise (UnityPy builds env.objects and         *)
(* env.container anew on every access); such an exception goes to the      *)
(* handler of line 98.                                                     *)

MeshData(name, vertices, submeshes, normals, uv0) ==
    [m_Name |-> name, m_Vertices |-> vertices, m_SubMeshes |-> submeshes,
     m_Normals |-> normals, m_UV0 |-> uv0]

SnapObject(type, path_id, raises, data) ==
    [type |-> type, path_id |-> path_id, raises |-> raises, data |-> data]

\* six floats are two vertices; the submeshes carry their indexCount
BodyMesh == SnapObject("Mesh", 7, FALSE, MeshData("Body", 6, <<3, 3>>, TRUE, FALSE))
UnreadableMesh == SnapObject("Mesh", 8, TRUE, <<>>)
Texture == SnapObject("Texture2D", 9, FALSE, <<>>)
Typeless == SnapObject("", 10, FALSE, <<>>)
SnapObjects == {BodyMesh, UnreadableMesh, Texture, Typeless}

SeqsUpTo(S, n) == UNION {[1..m -> S] : m \in 0..n}

SnapEnvs ==
    {[has_signature |-> sg, has_objects |-> TRUE, objects |-> os,
      has_container |-> TRUE, container |-> c] :
         sg \in BOOLEAN, os \in SeqsUpTo(SnapObjects, MaxObjects),
         c \in {SubSeq(<<"assets/a.prefab", "assets/b.mesh", "assets/c.mat">>, 1, n) :
                   n \in 0..MaxNodes}}
    \cup {[has_signature |-> FALSE, has_objects |-> ho, objects |-> <<>>,
           has_container |-> hc, container |-> <<>>] : ho, hc \in BOOLEAN}

\* line 18-33
NewSnapshot ==
    [signature |-> "UnityFS", object_types |-> <<>>, nodes |-> <<>>, meshes |-> <<>>,
     extraction_errors |-> <<>>,
     summary |-> [total_objects |-> 0, total_nodes |-> 0, total_meshes |-> 0,
                  total_extraction_errors |-> 0]]

\* line 45: object_types[type_name] = object_types.get(type_name, 0) + 1, on
\* the <<name, count>> pairs of the dict
CountType(types, name) ==
    IF \E n \in 1..Len(types) : types[n][1] = name
    THEN [n \in 1..Len(types) |->
             IF types[n][1] = name THEN <<name, types[n][2] + 1>> ELSE types[n]]
    ELSE Append(types, <<name, 1>>)

\* line 70-77: the sum of the indexCount of the submeshes
RECURSIVE IndexCount(_)
IndexCount(submeshes) ==
    IF submeshes = <<>> THEN 0 ELSE Head(submeshes) + IndexCount(Tail(submeshes))

\* line 62-86: the entry of a mesh that was read
MeshEntry(obj) ==
    [name |-> obj.data.m_Name,
     vertex_count |-> obj.data.m_Vertices \div 3,
     index_count |-> IndexCount(obj.data.m_SubMeshes),
     has_normals |-> obj.data.m_Normals,
     has_uv0 |-> obj.data.m_UV0,
     object_path |-> "Object " \o ToString(obj.path_id)]

\* line 57, 41: hasattr(env, 'objects') and env.objects
HasObjects(env) == env.has_objects /\ env.objects # <<>>

InitSnapshot ==
    /\ snap_env \in SnapEnvs
    /\ snapshot = NewSnapshot
    /\ snap_i = 0
    /\ snap_pc = "signature"
    /\ BundleIdle
    /\ DumpIdle
    /\ CompareIdle
    /\ FixturesIdle
    /\ EnrichIdle

snapOthers == <<bundleVars, dumpVars, cmpVars, fxVars, enrVars>>

\* line 37-38
SnapSignature ==
    /\ snap_pc = "signature"
    /\ snapshot' = IF snap_env.has_signature
                   THEN [snapshot EXCEPT !.signature = "env.signature"]
                   ELSE snapshot
    /\ snap_pc' = "types"
    /\ UNCHANGED <<snap_env, snap_i, snapOthers>>

\* line 41-45: one object of the first loop; without objects the loop and
\* line 46 are skipped
SnapCountType ==
    /\ snap_pc = "types"
    /\ IF ~HasObjects(snap_env)
       THEN /\ snap_pc' = "container"
            /\ UNCHANGED <<snapshot, snap_i>>
       ELSE IF snap_i < Len(snap_env.objects)
       THEN /\ snapshot' =
                  IF snap_env.objects[snap_i + 1].type # ""
                  THEN [snapshot EXCEPT !.object_types =
                           CountType(@, snap_env.objects[snap_i + 1].type)]
                  ELSE snapshot
            /\ snap_i' = snap_i + 1
            /\ snap_pc' = snap_pc
       ELSE \* line 46
            /\ snapshot' = [snapshot EXCEPT !.summary.total_objects =
                                                Len(snap_env.objects)]
            /\ snap_i' = 0
            /\ snap_pc' = "container"
    /\ UNCHANGED <<snap_env, snapOthers>>

\* line 49-54: one entry of env.container is appended to nodes
SnapNode ==
    /\ snap_pc = "container"
    /\ IF snap_env.has_container /\ snap_i < Len(snap_env.container)
       THEN /\ snapshot' = [snapshot EXCEPT !.nodes =
                               Append(@, [path |-> snap_env.container[snap_i + 1],
                                          type |-> "PPtr"])]
            /\ snap_i' = snap_i + 1
            /\ snap_pc' = snap_pc
       ELSE /\ snapshot' = snapshot
            /\ snap_i' = 0
            /\ snap_pc' = "meshes"
    /\ UNCHANGED <<snap_env, snapOthers>>

\* line 57-91: one object of the second loop: a Mesh is read and appended to
\* meshes, or the exception of its read is appended to extraction_errors
SnapMesh ==
    /\ snap_pc = "meshes"
    /\ IF HasObjects(snap_env) /\ snap_i < Len(snap_env.objects)
       THEN LET obj == snap_env.objects[snap_i + 1]
            IN  /\ snapshot' =
                      IF obj.type # "Mesh" THEN snapshot
                      ELSE IF obj.raises
                      THEN [snapshot EXCEPT !.extraction_errors =
                               Append(@, [type |-> "Mesh extraction",
                                          error |-> "ValueError: read failed"])]
                      ELSE [snapshot EXCEPT !.meshes = Append(@, MeshEntry(obj))]
                /\ snap_i' = snap_i + 1
                /\ snap_pc' = snap_pc
       ELSE /\ snapshot' = snapshot
            /\ snap_i' = 0
            /\ snap_pc' = "summary"
    /\ UNCHANGED <<snap_env, snapOthers>>

\* line 94-96
SnapSummary ==
    /\ snap_pc = "summary"
    /\ snapshot' = [snapshot EXCEPT
                       !.summary.total_nodes = Len(snapshot.nodes),
                       !.summary.total_meshes = Len(snapshot.meshes),
                       !.summary.total_extraction_errors = Len(snapshot.extraction_errors)]
    /\ snap_pc' = "returned"
    /\ UNCHANGED <<snap_env, snap_i, snapOthers>>

\* an access of line 37-60 outside the inner try raises: hasattr(env, ...)
\* (any exception but AttributeError), env.objects (line 41, 42, 46, 57, 58),
\* obj.type (line 43, 44, 60), env.container (line 49, 50, before the first
\* entry is taken)
SnapRaise ==
    /\ \/ snap_pc \in {"signature", "types", "meshes"}
       \/ snap_pc = "container" /\ snap_i = 0
    /\ snap_pc' = "handler"
    /\ UNCHANGED <<snap_env, snapshot, snap_i, snapOthers>>

\* line 98-103: the handler of the outer try
SnapHandler ==
    /\ snap_pc = "handler"
    /\ LET errors == Append(snapshot.extraction_errors,
                            [type |-> "General", error |-> "str(e)"])
       IN  snapshot' = [snapshot EXCEPT
                           !.extraction_errors = errors,
                           !.summary.total_extraction_errors = Len(errors)]
    /\ snap_pc' = "returned"
    /\ UNCHANGED <<snap_env, snap_i, snapOthers>>

NextSnapshot ==
    \/ SnapSignature
    \/ SnapCountType
    \/ SnapNode
    \/ SnapMesh
    \/ SnapSummary
    \/ SnapRaise
    \/ SnapHandler

SpecSnapshot == InitSnapshot /\ [][NextSnapshot]_vars

\* C13: the snapshot extract_bundle_snapshot returns has a summary that agrees
\* with its lists on every path, the one through the outer handler included:
\* total_nodes = len(nodes), total_meshes = len(meshes) and
\* total_extraction_errors = len(extraction_errors).
CE_C13_SummaryMatchesLists ==
    snap_pc = "returned" =>
        /\ snapshot.summary.total_nodes = Len(snapshot.nodes)
        /\ snapshot.summary.total_meshes = Len(snapshot.meshes)
        /\ snapshot.summary.total_extraction_errors = Len(snapshot.extraction_errors)

\* the same without the outer handler
C13_HoldsWithoutOuterException ==
    /\ snap_pc = "returned"
    /\ \A n \in 1..Len(snapshot.extraction_errors) :
           snapshot.extraction_errors[n].type # "General"
    =>
        /\ snapshot.summary.total_nodes = Len(snapshot.nodes)
        /\ snapshot.summary.total_meshes = Len(snapshot.meshes)
        /\ snapshot.summary.total_extraction_errors = Len(snapshot.extraction_errors)

\* the count of errors agrees on every path
C13_ErrorCountAlwaysMatches ==
    snap_pc = "returned" =>
        snapshot.summary.total_extraction_errors = Len(snapshot.extraction_errors)

----------------------------------------------------------------------------
(* tests/UnityAssetParser.Tests/tools/enrich_unityasset_snapshots_with_    *)
(* unitypy.py: main.  The files under fixtures_root are index.json, the    *)
(* snapshot files and the fixtures.  The content of a file is              *)
(*   [kind |-> "json", ...]      a JSON document (index or snapshot)       *)
(*   [kind |-> "bundle", ...]    a fixture UnityPy loads, with the         *)
(*                               _mesh_diag of its meshes by path id       *)
(*   [kind |-> "corrupt"]        a fixture UnityPy.load raises on          *)
(*   [kind |-> "missing"]        no file                                   *)
(*   [kind |-> "truncated"]      a file opened for writing whose write     *)
(*                               failed                                    *)
(* A key a JSON object does not have is Absent.  The snapshotFile of an    *)
(* entry of selectedFixtures names a snapshot file, never index.json.      *)

Absent == [absent |-> TRUE]
Missing == [kind |-> "missing"]
Truncated == [kind |-> "truncated"]

IndexName == "index.json"
SnapshotNames == {"a.snapshot.json", "b.snapshot.json"}
FixtureNames == {"a.hhh", "b.hhh"}

\* line 35-49: what _mesh_diag returns; renderableHint as line 33 computes it
MeshDiag(vertex_count, index_buffer_len, vertex_data_len, has_stream) ==
    [vertexCount |-> vertex_count,
     indexBufferLength |-> index_buffer_len,
     vertexDataLength |-> vertex_data_len,
     channelsCount |-> 4,
     indexFormat |-> PyInt(0),
     use16BitIndices |-> PyNone,
     streamData |-> [hasStream |-> has_stream,
                     path |-> IF has_stream THEN PyStr("archive:/a.resS") ELSE PyNone,
                     offset |-> 0,
                     size |-> IF has_stream THEN 48 ELSE 0],
     renderableHint |-> vertex_count > 0 /\ index_buffer_len > 0
                        /\ (vertex_data_len > 0 \/ has_stream)]

\* line 89-103: the default of unitypy_meshes.get(path_id, ...)
DefaultOracle(mesh) ==
    [vertexCount |-> mesh.vertexCount,
     indexBufferLength |-> mesh.bufferLengths.indices,
     vertexDataLength |-> 0,
     channelsCount |-> 0,
     indexFormat |-> PyNone,
     use16BitIndices |-> PyNone,
     streamData |-> [hasStream |-> FALSE, path |-> PyNone, offset |-> 0, size |-> 0],
     renderableHint |-> FALSE]

\* line 88-103: oracle = unitypy_meshes.get(int(mesh["pathId"]), default)
OracleOf(mesh, meshes) ==
    IF mesh.pathId.v \in DOMAIN meshes THEN meshes[mesh.pathId.v]
    ELSE DefaultOracle(mesh)

\* line 107-114
ParserGapOf(mesh, oracle) ==
    LET positions_likely_missing == mesh.bufferLengths.vertexData = 0 /\ mesh.vertexCount > 0
        stream_present == oracle.streamData.hasStream
    IN  [positionsLikelyMissingFromParser |-> positions_likely_missing,
         streamDataPresentInOracle |-> stream_present,
         externalStreamLikelyCause |-> positions_likely_missing /\ stream_present,
         decodedPositionsMissingInParser |-> positions_likely_missing]

\* a mesh of a snapshot file; pathId is an int or Absent when the key is not
\* there
SnapMeshOf(path_id, vertex_count, vertex_data, indices, oracle, gap) ==
    [pathId |-> path_id, vertexCount |-> vertex_count,
     bufferLengths |-> [vertexData |-> vertex_data, indices |-> indices],
     oracle |-> oracle, parserGap |-> gap]

SnapshotDoc(schema, has_meshes, meshes, oracle) ==
    [kind |-> "json", schemaVersion |-> schema, has_meshes |-> has_meshes,
     meshes |-> meshes, oracle |-> oracle]

StreamedMesh == SnapMeshOf(PyInt(1), 4, 0, 6, Absent, Absent)
PlainMesh == SnapMeshOf(PyInt(2), 3, 36, 3, Absent, Absent)
KeylessMesh == SnapMeshOf(Absent, 3, 36, 3, Absent, Absent)
StaleMesh == SnapMeshOf(PyInt(1), 4, 0, 6, DefaultOracle(StreamedMesh),
                        ParserGapOf(StreamedMesh, DefaultOracle(StreamedMesh)))

SnapshotFiles ==
    {SnapshotDoc(2, TRUE, <<StreamedMesh, PlainMesh>>, Absent),
     SnapshotDoc(2, FALSE, <<>>, Absent),
     SnapshotDoc(2, TRUE, <<StreamedMesh, KeylessMesh>>, Absent),
     SnapshotDoc(3, TRUE, <<StaleMesh>>, [source |-> "UnityPy", version |-> "1.20"]),
     Missing}

FixtureFiles ==
    {[kind |-> "bundle", meshes |-> (1 :> MeshDiag(4, 6, 0, TRUE))],
     [kind |-> "corrupt"]}

FixtureInfos ==
    {[name |-> "a.hhh", snapshotFile |-> "a.snapshot.json"],
     [name |-> "b.hhh", snapshotFile |-> "b.snapshot.json"],
     [name |-> "b.hhh", snapshotFile |-> "a.snapshot.json"]}

IndexDoc(schema, selected) ==
    [kind |-> "json", schemaVersion |-> schema, selectedFixtures |-> selected]

EnrichFiles ==
    {(IndexName :> IndexDoc(2, sel))
         @@ ("a.snapshot.json" :> sa) @@ ("b.snapshot.json" :> sb)
         @@ ("a.hhh" :> fa) @@ ("b.hhh" :> fb) :
       sel \in SeqsUpTo(FixtureInfos, MaxSelected),
       sa \in SnapshotFiles, sb \in SnapshotFiles,
       fa \in FixtureFiles, fb \in FixtureFiles}

InitEnrich ==
    /\ enr_files \in EnrichFiles
    /\ enr_start = enr_files
    /\ index_data = <<>> /\ enr_i = 0 /\ enr_snapshot = <<>>
    /\ unitypy_meshes = <<>> /\ enr_j = 0
    /\ enr_err = "none" /\ enr_written = <<>> /\ enr_pc = "start"
    /\ BundleIdle
    /\ DumpIdle
    /\ CompareIdle
    /\ FixturesIdle
    /\ SnapshotIdle

enrOthers == <<bundleVars, dumpVars, cmpVars, fxVars, snapVars>>

\* an exception nothing in main catches: main ends
EnrichFail(e) ==
    /\ enr_err' = e
    /\ enr_pc' = "failed"

\* line 70-73
EnrichLoadIndex ==
    /\ enr_pc = "start"
    /\ index_data' = enr_files[IndexName]
    /\ enr_pc' = "fixture"
    /\ UNCHANGED <<enr_files, enr_start, enr_i, enr_snapshot, unitypy_meshes, enr_j,
                   enr_err, enr_written, enrOthers>>

\* a faulty variant of SelectedExhausted: the loop is left after one entry
SelectedExhaustedAfterOne(i, selected) == i >= Min(1, Len(selected))

\* line 75: the for loop over selected has taken every entry
SelectedExhausted(i, selected) == i >= Len(selected)

\* line 75-83: the next entry of selected; its snapshot file is loaded
EnrichOpenSnapshot ==
    /\ enr_pc = "fixture"
    /\ ~SelectedExhausted(enr_i, index_data.selectedFixtures)
    /\ LET fixture_info == index_data.selectedFixtures[enr_i + 1]
           content == enr_files[fixture_info.snapshotFile]
       IN  IF content.kind = "json"
           THEN /\ enr_snapshot' = content
                /\ enr_pc' = "unitypy"
                /\ enr_err' = enr_err
           ELSE /\ EnrichFail(IF content.kind = "missing" THEN "FileNotFoundError"
                              ELSE "JSONDecodeError")
                /\ enr_snapshot' = enr_snapshot
    /\ UNCHANGED <<enr_files, enr_start, index_data, enr_i, unitypy_meshes, enr_j,
                   enr_written, enrOthers>>

\* line 85, 52-62: _load_unitypy_meshes(fixture_path)
EnrichLoadMeshes ==
    /\ enr_pc = "unitypy"
    /\ LET content == enr_files[index_data.selectedFixtures[enr_i + 1].name]
       IN  IF content.kind = "bundle"
           THEN /\ unitypy_meshes' = content.meshes
                /\ enr_j' = 0
                /\ enr_pc' = "mesh"
                /\ enr_err' = enr_err
           ELSE /\ EnrichFail("UnityPyError")
                /\ UNCHANGED <<unitypy_meshes, enr_j>>
    /\ UNCHANGED <<enr_files, enr_start, index_data, enr_i, enr_snapshot, enr_written,
                   enrOthers>>

\* line 87-114: one mesh of the snapshot gets its oracle and parserGap
EnrichMesh ==
    /\ enr_pc = "mesh"
    /\ enr_j < Len(enr_snapshot.meshes)
    /\ LET mesh == enr_snapshot.meshes[enr_j + 1]
       IN  IF mesh.pathId = Absent
           THEN /\ EnrichFail("KeyError")
                /\ UNCHANGED <<enr_snapshot, enr_j>>
           ELSE /\ enr_snapshot' =
                      [enr_snapshot EXCEPT !.meshes[enr_j + 1] =
                          [mesh EXCEPT
                              !.oracle = OracleOf(mesh, unitypy_meshes),
                              !.parserGap = ParserGapOf(mesh, OracleOf(mesh, unitypy_meshes))]]
                /\ enr_j' = enr_j + 1
                /\ UNCHANGED <<enr_err, enr_pc>>
    /\ UNCHANGED <<enr_files, enr_start, index_data, enr_i, unitypy_meshes, enr_written,
                   enrOthers>>

\* line 116-126: after the last mesh the snapshot gets schemaVersion 3 and
\* its oracle and is written to its file; open("w") empties the file, and
\* a write that fails leaves it so
EnrichWriteSnapshot ==
    /\ enr_pc = "mesh"
    /\ enr_j >= Len(enr_snapshot.meshes)
    /\ LET snapshot_name == index_data.selectedFixtures[enr_i + 1].snapshotFile
           done == [enr_snapshot EXCEPT
                       !.schemaVersion = 3,
                       !.oracle = [source |-> "UnityPy", version |-> "UnityPy.__version__"]]
       IN  /\ enr_snapshot' = done
           /\ enr_written' = Append(enr_written, snapshot_name)
           /\ \/ /\ enr_files' = [enr_files EXCEPT ![snapshot_name] = done]
                 /\ enr_i' = enr_i + 1
                 /\ enr_pc' = "fixture"
                 /\ enr_err' = enr_err
              \/ /\ enr_files' = [enr_files EXCEPT ![snapshot_name] = Truncated]
                 /\ EnrichFail("OSError")
                 /\ enr_i' = enr_i
    /\ UNCHANGED <<enr_start, index_data, unitypy_meshes, enr_j, enrOthers>>

\* line 128-133: after the loop index.json is written with schemaVersion 3
EnrichWriteIndex ==
    /\ enr_pc = "fixture"
    /\ SelectedExhausted(enr_i, index_data.selectedFixtures)
    /\ index_data' = [index_data EXCEPT !.schemaVersion = 3]
    /\ enr_written' = Append(enr_written, IndexName)
    /\ \/ /\ enr_files' = [enr_files EXCEPT ![IndexName] = index_data']
          /\ enr_pc' = "done"
          /\ enr_err' = enr_err
       \/ /\ enr_files' = [enr_files EXCEPT ![IndexName] = Truncated]
          /\ EnrichFail("OSError")
    /\ UNCHANGED <<enr_start, enr_i, enr_snapshot, unitypy_meshes, enr_j, enrOthers>>

NextEnrich ==
    \/ EnrichLoadIndex
    \/ EnrichOpenSnapshot
    \/ EnrichLoadMeshes
    \/ EnrichMesh
    \/ EnrichWriteSnapshot
    \/ EnrichWriteIndex

SpecEnrich == InitEnrich /\ [][NextEnrich]_vars

\* the snapshot file was rewritten by this run and holds schemaVersion 3 and
\* an oracle on each of its meshes
RewrittenEnriched(name) ==
    /\ \E n \in 1..Len(enr_written) : enr_written[n] = name
    /\ enr_files[name].kind = "json"
    /\ enr_files[name].schemaVersion = 3
    /\ \A n \in 1..Len(enr_files[name].meshes) :
           enr_files[name].meshes[n].oracle # Absent

\* every mesh of the snapshot in memory has the oracle and parserGap main
\* computes for it
AllMeshesEnriched ==
    \A n \in 1..Len(enr_snapshot.meshes) :
        LET mesh == enr_snapshot.meshes[n]
        IN  /\ mesh.pathId # Absent
            /\ mesh.oracle = OracleOf(mesh, unitypy_meshes)
            /\ mesh.parserGap = ParserGapOf(mesh, mesh.oracle)

\* C14: index.json changes only in a step before which every snapshot file
\* listed in selectedFixtures has been rewritten with schemaVersion 3 and an
\* oracle on each mesh, and what is written to it has schemaVersion 3; when
\* the processing of a fixture has failed, index.json is as main found it;
\* and a snapshot file changes only in a step before which all the meshes of
\* the snapshot have their oracle and parserGap, which the file then holds.
Thm_C14_IndexAfterSnapshots ==
    /\ [][ enr_files'[IndexName] # enr_files[IndexName] =>
              /\ \A n \in 1..Len(enr_files[IndexName].selectedFixtures) :
                     RewrittenEnriched(enr_files[IndexName].selectedFixtures[n].snapshotFile)
              /\ enr_files'[IndexName] # Truncated =>
                     /\ enr_files'[IndexName].schemaVersion = 3
                     /\ enr_files'[IndexName].selectedFixtures
                            = enr_files[IndexName].selectedFixtures ]_vars
    /\ [](enr_pc = "failed" /\ enr_i < Len(index_data.selectedFixtures) =>
              enr_files[IndexName] = enr_start[IndexName])
    /\ [][ \A name \in SnapshotNames :
              enr_files'[name] # enr_files[name] =>
                  /\ AllMeshesEnriched
                  /\ enr_files'[name] # Truncated =>
                         /\ enr_files'[name].meshes = enr_snapshot.meshes
                         /\ enr_files'[name].schemaVersion = 3 ]_vars

Wit_C14_TwoSnapshotsThenIndex ==
    /\ enr_pc = "done"
    /\ enr_written = <<"a.snapshot.json", "b.snapshot.json", IndexName>>
    /\ enr_start[IndexName].schemaVersion = 2
    /\ enr_files[IndexName].schemaVersion = 3
    /\ RewrittenEnriched("a.snapshot.json")
    /\ RewrittenEnriched("b.snapshot.json")
    /\ Len(enr_files["a.snapshot.json"].meshes) = 2
    /\ enr_files["a.snapshot.json"].meshes[1].oracle.streamData.hasStream
    /\ enr_files["a.snapshot.json"].meshes[1].parserGap.externalStreamLikelyCause
    /\ enr_files["a.snapshot.json"].meshes[2].oracle = DefaultOracle(PlainMesh)
    /\ enr_start["b.snapshot.json"].schemaVersion = 3

\* a fixture failed after the snapshot of an earlier one was written
C14_FailedAfterFirstSnapshot ==
    /\ enr_pc = "failed"
    /\ enr_err = "KeyError"
    /\ enr_written = <<"a.snapshot.json">>
    /\ enr_i = 1

====
